---- MODULE Spec2Model ----
(***************************************************************************)
(* RRT* grid planner of src/src/main.cpp: the grid editor (mouseCallback   *)
(* and the setup loop of main), the RRT* loop of main and smoothPath.      *)
(*                                                                         *)
(* Arithmetic.  Node positions are whole pixels <<x, y>>.  Lengths (dist,  *)
(* Node.cost, the step, the neighbourhood radius, the capture radius) are  *)
(* fixed point numbers in tenths of a pixel, rounded down, in place of the *)
(* C++ float.  The ten points collisionFree samples on a segment are       *)
(* a + (b - a) * i / 10: they are exact in tenths of a pixel.              *)
(* Indices of tree are the C++ ones (0 based, parent -1 for the root);     *)
(* the TLA+ sequence holds node j at position j + 1.                       *)
(***************************************************************************)
EXTENDS Integers, Sequences, FiniteSets, TLC

VARIABLES
    gridSize,        \* int gridSize, read from std::cin
    cellSize,        \* int cellSize = canvasSize / gridSize
    start,           \* cv::Point start: <<col, row>>, <<-1, -1>> when unset
    goal,            \* cv::Point goal:  <<col, row>>, <<-1, -1>> when unset
    obstacles,       \* std::set of <<row, col>>
    undoStack,       \* std::stack as a sequence, top last
    redoStack,       \* std::stack as a sequence, top last
    selectingStart,  \* bool selectingStart
    configured,      \* bool configured
    pc,              \* position of main: "setup", "plan", "found", "smooth", "done"
    maxIter,         \* const int MAX_ITER of main, scaled down per specification
    i,               \* loop counter of the RRT* loop
    tree,            \* std::vector<Node> tree
    goalIdx,         \* int goalIdx
    path,            \* smoothPath: path (after the reverse)
    smoothed,        \* smoothPath: smoothed
    anchor           \* smoothPath: i of the outer loop (0 based)

vars == <<gridSize, cellSize, start, goal, obstacles, undoStack, redoStack,
          selectingStart, configured, pc, maxIter, i, tree, goalIdx, path,
          smoothed, anchor>>

editorVars == <<start, goal, obstacles, undoStack, redoStack, selectingStart>>
planVars == <<maxIter, i, tree, goalIdx, path, smoothed, anchor>>

(***************************************************************************)
(* Program constants.                                                      *)
(***************************************************************************)
canvasSize == 500

\* The step cap of the steering, std::min(50.0f, bestDist), in pixels.
stepCap == 50

\* The iteration budget, const int MAX_ITER = 10000, scaled down.
MAX_ITER == 5
\* The budget of the empty 5 x 5 map: enough for the eleven goal biased steps
\* that cross the map (one every fifth iteration).
MAX_ITER_A == 56
\* The editor accepts at most this many entries on the two stacks together.
MaxToggles == 2

(***************************************************************************)
(* Integer helpers.                                                        *)
(***************************************************************************)
\* The C++ quotient a / b (b # 0) as an int: truncation toward zero.
TruncDiv(a, b) ==
    IF b > 0 THEN (IF a >= 0 THEN a \div b ELSE -((-a) \div b))
    ELSE (IF a >= 0 THEN -(a \div (-b)) ELSE (-a) \div (-b))

\* What an int division by zero leaves in the destination on a build that
\* does not trap (the behaviour is undefined): 0 or -1.
DivZeroQuotients == {0, -1}

\* The values the int expression a / b can produce.
Quot(a, b) == IF b = 0 THEN DivZeroQuotients ELSE { TruncDiv(a, b) }

Min(a, b) == IF a < b THEN a ELSE b

RECURSIVE SqrtSearch(_, _, _)
SqrtSearch(n, lo, hi) ==
    IF lo >= hi THEN lo
    ELSE LET mid == (lo + hi + 1) \div 2
         IN  IF mid * mid <= n THEN SqrtSearch(n, mid, hi)
             ELSE SqrtSearch(n, lo, mid - 1)

\* floor(sqrt(n)) for 0 <= n < 7100 * 7100
ISqrt(n) == SqrtSearch(n, 0, 7100)

(***************************************************************************)
(* Geometry: clampToGrid, isInsideGrid, isObstacle, collisionFree, dist.   *)
(***************************************************************************)
clampToGrid(pt) ==
    << IF pt[1] < 0 THEN 0 ELSE IF pt[1] > canvasSize - 1 THEN canvasSize - 1 ELSE pt[1],
       IF pt[2] < 0 THEN 0 ELSE IF pt[2] > canvasSize - 1 THEN canvasSize - 1 ELSE pt[2] >>

\* int r = pt.y / cellSize, c = pt.x / cellSize, for a point given in units of
\* 1 / unit pixel.
RowOf(q, unit) == TruncDiv(q[2], unit * cellSize)
ColOf(q, unit) == TruncDiv(q[1], unit * cellSize)

InsideAt(q, unit) ==
    /\ RowOf(q, unit) >= 0 /\ RowOf(q, unit) < gridSize
    /\ ColOf(q, unit) >= 0 /\ ColOf(q, unit) < gridSize

ObstacleAt(q, unit) ==
    \/ ~InsideAt(q, unit)
    \/ <<RowOf(q, unit), ColOf(q, unit)>> \in obstacles

isInsideGrid(pt) == InsideAt(pt, 1)

isObstacle(pt) == ObstacleAt(pt, 1)

\* pt = a + (b - a) * (i / 10.0f), in tenths of a pixel
SegPoint(a, b, k) == << 10 * a[1] + (b[1] - a[1]) * k, 10 * a[2] + (b[2] - a[2]) * k >>

\* Mutant of collisionFree: only the midpoint and the end point are sampled.
collisionFree_Coarse(a, b) ==
    \A k \in {5, 10} :
        ~(~InsideAt(SegPoint(a, b, k), 10) \/ ObstacleAt(SegPoint(a, b, k), 10))

collisionFree(a, b) ==
    \A k \in 1..10 :
        ~(~InsideAt(SegPoint(a, b, k), 10) \/ ObstacleAt(SegPoint(a, b, k), 10))

\* cv::norm(a - b), in tenths of a pixel
dist(a, b) ==
    ISqrt(100 * ((a[1] - b[1]) * (a[1] - b[1]) + (a[2] - b[2]) * (a[2] - b[2])))

(***************************************************************************)
(* The editor: mouseCallback and the setup loop of main.                   *)
(***************************************************************************)
Unset == <<-1, -1>>

\* Mutant of Toggle: a cell is added, never erased.
Toggle_AddOnly(S, cell) == S \cup {cell}

\* if (obstacles.count(cell)) obstacles.erase(cell); else obstacles.insert(cell);
Toggle(S, cell) == IF cell \in S THEN S \ {cell} ELSE S \cup {cell}

Top(s) == s[Len(s)]
Pop(s) == SubSeq(s, 1, Len(s) - 1)

\* Pixels the mouse events of the model arrive at.
ClickPts == { <<25, 25>>, <<75, 25>>, <<125, 25>>, <<499, 25>> }

\* mouseCallback(EVENT_LBUTTONDOWN, x, y)
LeftClick(x, y) ==
    \E col \in Quot(x, cellSize), row \in Quot(y, cellSize) :
    LET cell == <<row, col>>
    IN  /\ pc = "setup"
        /\ Len(undoStack) + Len(redoStack) < MaxToggles
        /\ IF col >= gridSize \/ row >= gridSize
             THEN UNCHANGED editorVars
           ELSE IF start = <<col, row>> \/ goal = <<col, row>>
             THEN UNCHANGED editorVars
           ELSE /\ obstacles' = Toggle(obstacles, cell)
                /\ undoStack' = Append(undoStack, cell)
                /\ redoStack' = <<>>
                /\ UNCHANGED <<start, goal, selectingStart>>
        /\ UNCHANGED <<gridSize, cellSize, configured, pc>>
        /\ UNCHANGED planVars

\* mouseCallback(EVENT_RBUTTONDOWN, x, y)
RightClick(x, y) ==
    \E col \in Quot(x, cellSize), row \in Quot(y, cellSize) :
        /\ pc = "setup"
        /\ IF col >= gridSize \/ row >= gridSize
             THEN UNCHANGED editorVars
           ELSE IF selectingStart
             THEN /\ start' = <<col, row>>
                  /\ selectingStart' = FALSE
                  /\ UNCHANGED <<goal, obstacles, undoStack, redoStack>>
           ELSE /\ goal' = <<col, row>>
                /\ UNCHANGED <<start, selectingStart, obstacles, undoStack, redoStack>>
        /\ UNCHANGED <<gridSize, cellSize, configured, pc>>
        /\ UNCHANGED planVars

\* key == 'u' && !undoStack.empty()
KeyUndo ==
    /\ pc = "setup"
    /\ undoStack # <<>>
    /\ obstacles' = Toggle(obstacles, Top(undoStack))
    /\ redoStack' = Append(redoStack, Top(undoStack))
    /\ undoStack' = Pop(undoStack)
    /\ UNCHANGED <<start, goal, selectingStart>>
    /\ UNCHANGED <<gridSize, cellSize, configured, pc>>
    /\ UNCHANGED planVars

\* key == 'r' && !redoStack.empty()
KeyRedo ==
    /\ pc = "setup"
    /\ redoStack # <<>>
    /\ obstacles' = Toggle(obstacles, Top(redoStack))
    /\ undoStack' = Append(undoStack, Top(redoStack))
    /\ redoStack' = Pop(redoStack)
    /\ UNCHANGED <<start, goal, selectingStart>>
    /\ UNCHANGED <<gridSize, cellSize, configured, pc>>
    /\ UNCHANGED planVars

\* cv::Point2f startPt(start.x * cellSize + cellSize / 2, ...)
CellCentre(c) ==
    << c[1] * cellSize + TruncDiv(cellSize, 2), c[2] * cellSize + TruncDiv(cellSize, 2) >>

startPt == CellCentre(start)
goalPt == CellCentre(goal)

\* std::vector<Node> tree = {{startPt, -1, 0}}
RootTree(c) == << [point |-> CellCentre(c), parent |-> -1, cost |-> 0] >>

\* key == 's' && start.x != -1 && goal.x != -1: configured = true, the setup
\* loop ends and main initialises the tree.
KeyStart ==
    /\ pc = "setup"
    /\ start[1] # -1 /\ goal[1] # -1
    /\ configured' = TRUE
    /\ pc' = "plan"
    /\ tree' = RootTree(start)
    /\ i' = 0
    /\ goalIdx' = -1
    /\ UNCHANGED <<gridSize, cellSize, maxIter, path, smoothed, anchor>>
    /\ UNCHANGED editorVars

(***************************************************************************)
(* The RRT* loop of main.                                                  *)
(***************************************************************************)
\* Node j of a tree t (0 based, as in the C++).
NodeAt(t, j) == t[j + 1]

\* 50.0f * std::sqrt(std::log(n + 1) / (n + 1)) for n = 1 .. 70 nodes, in
\* tenths of a pixel, rounded down.
RadiusTable ==
    << 294, 302, 294, 283, 273, 263, 254, 247, 239, 233, 227, 222, 217, 212,
       208, 204, 200, 196, 193, 190, 187, 184, 181, 179, 176, 174, 172, 170,
       168, 166, 164, 162, 161, 159, 157, 156, 154, 153, 151, 150, 149, 147,
       146, 145, 144, 143, 141, 140, 139, 138, 137, 136, 135, 134, 134, 133,
       132, 131, 130, 129, 129, 128, 127, 126, 125, 125, 124, 123, 123, 122 >>

\* float radius = 50.0f * std::sqrt(std::log(tree.size() + 1) / (tree.size() + 1))
Radius(n) == RadiusTable[n]

\* Mutant of GoalBiased: the goal is never sampled on purpose.
GoalBiased_Never(k) == FALSE

\* (i % 5 == 0) ? goalPt : clampToGrid(cv::Point2f(dis(rng), dis(rng)))
GoalBiased(k) == k % 5 = 0

SamplePoint(k, s) == IF GoalBiased(k) THEN goalPt ELSE clampToGrid(s)

\* The nearest node scan: the first index of the least distance.
RECURSIVE NearestFrom(_, _, _, _)
NearestFrom(j, randPt, nearest, bestDist) ==
    IF j >= Len(tree) THEN nearest
    ELSE IF dist(NodeAt(tree, j).point, randPt) < bestDist
         THEN NearestFrom(j + 1, randPt, j, dist(NodeAt(tree, j).point, randPt))
         ELSE NearestFrom(j + 1, randPt, nearest, bestDist)

\* float bestDist = 1e9 (ten times that, in tenths)
Nearest(randPt) == NearestFrom(0, randPt, -1, 1000000000)

\* newPt = clampToGrid(tree[nearest].point + dir * (stepSize / cv::norm(dir)))
\* for a direction of length norm > 0
Steer(from, randPt, norm) ==
    LET stepSize == Min(10 * stepCap, norm)
    IN  clampToGrid(<< from[1] + TruncDiv((randPt[1] - from[1]) * stepSize, norm),
                       from[2] + TruncDiv((randPt[2] - from[2]) * stepSize, norm) >>)

\* Mutant of SteerOk: only the end point of the steering segment is checked.
SteerOk_EndOnly(from, newPt) == isInsideGrid(newPt) /\ ~isObstacle(newPt)

\* Mutant of SteerOk: the steering segment is not checked.
SteerOk_NoCollision(from, newPt) == isInsideGrid(newPt)

\* if (!isInsideGrid(newPt) || !collisionFree(tree[nearest].point, newPt)) continue;
SteerOk(from, newPt) == ~(~isInsideGrid(newPt) \/ ~collisionFree(from, newPt))

\* dist(tree[j].point, newPt) < radius && collisionFree(tree[j].point, newPt)
ParentCandidate(nodePt, newPt, radius) ==
    dist(nodePt, newPt) < radius /\ collisionFree(nodePt, newPt)

\* Mutant of ChooseParent: the nearest node is kept as the parent.
ChooseParent_KeepNearest(j, newPt, radius, bestParent, bestCost) == <<bestParent, bestCost>>

\* The choose parent scan: <<bestParent, bestCost>>.
RECURSIVE ChooseParent(_, _, _, _, _)
ChooseParent(j, newPt, radius, bestParent, bestCost) ==
    IF j >= Len(tree) THEN <<bestParent, bestCost>>
    ELSE LET cost == NodeAt(tree, j).cost + dist(NodeAt(tree, j).point, newPt)
         IN  IF ParentCandidate(NodeAt(tree, j).point, newPt, radius) /\ cost < bestCost
             THEN ChooseParent(j + 1, newPt, radius, j, cost)
             ELSE ChooseParent(j + 1, newPt, radius, bestParent, bestCost)

\* dist(tree[j].point, newPt) < radius && collisionFree(newPt, tree[j].point)
RewireCandidate(nodePt, newPt, radius) ==
    dist(nodePt, newPt) < radius /\ collisionFree(newPt, nodePt)

\* Mutant of RewireCost: the cost of the new node is left out.
RewireCost_EdgeOnly(bestCost, newPt, nodePt) == dist(newPt, nodePt)

\* Mutant of RewireCost: the edge from the new node is left out of the cost.
RewireCost_NoEdge(bestCost, newPt, nodePt) == bestCost

\* float newCost = bestCost + dist(newPt, tree[j].point)
RewireCost(bestCost, newPt, nodePt) == bestCost + dist(newPt, nodePt)

\* Mutant of RewireBetter: the comparison is the wrong way round.
RewireBetter_Reversed(newCost, oldCost) == newCost > oldCost

\* Mutant of RewireBetter: a node is rewired whenever the cost differs.
RewireBetter_NotEqual(newCost, oldCost) == newCost # oldCost

\* Mutant of RewireBetter: every node in reach is rewired.
RewireBetter_Always(newCost, oldCost) == TRUE

\* if (newCost < tree[j].cost)
RewireBetter(newCost, oldCost) == newCost < oldCost

\* The rewire pass over a tree t whose last node is the new one.
Rewire(t, newIdx, newPt, bestCost, radius) ==
    [ k \in 1..Len(t) |->
        IF /\ k - 1 # newIdx
           /\ RewireCandidate(t[k].point, newPt, radius)
           /\ RewireBetter(RewireCost(bestCost, newPt, t[k].point), t[k].cost)
        THEN [point |-> t[k].point, parent |-> newIdx,
              cost |-> RewireCost(bestCost, newPt, t[k].point)]
        ELSE t[k] ]

\* Mutant of GoalReached: the capture radius is a whole cell.
GoalReached_FullCell(newPt) == dist(newPt, goalPt) < 10 * cellSize

\* if (dist(newPt, goalPt) < cellSize * 0.6f)
GoalReached(newPt) == dist(newPt, goalPt) < 6 * cellSize

\* Mutant of NextI: an iteration does not use up the budget.
NextI_Stuck(k) == k

\* ++i of the for loop, reached by every continue and by the end of the body
NextI(k) == k + 1

\* continue
Discard ==
    /\ i' = NextI(i)
    /\ UNCHANGED <<pc, tree, goalIdx>>

\* One pass of the loop body for the sample randPt.
LoopBody(randPt) ==
    IF ~isInsideGrid(randPt) \/ isObstacle(randPt) THEN Discard
    ELSE
    LET nearest == Nearest(randPt)
        from == NodeAt(tree, nearest).point
        norm == dist(randPt, from)
    IN  IF norm = 0 THEN Discard
        ELSE
        LET newPt == Steer(from, randPt, norm)
        IN  IF ~SteerOk(from, newPt) THEN Discard
            ELSE
            LET radius == Radius(Len(tree))
                best == ChooseParent(0, newPt, radius, nearest,
                                     NodeAt(tree, nearest).cost + dist(from, newPt))
                newIdx == Len(tree)
                grown == Append(tree, [point |-> newPt, parent |-> best[1], cost |-> best[2]])
            IN  /\ tree' = Rewire(grown, newIdx, newPt, best[2], radius)
                /\ IF GoalReached(newPt)
                     THEN /\ goalIdx' = newIdx
                          /\ pc' = "found"
                          /\ i' = i
                     ELSE /\ goalIdx' = goalIdx
                          /\ pc' = pc
                          /\ i' = NextI(i)

\* for (int i = 0; i < MAX_ITER; ++i) { ... } with the samples drawn from S
Iterate(S) ==
    /\ pc = "plan"
    /\ i < maxIter
    /\ \E s \in S : LoopBody(SamplePoint(i, s))
    /\ UNCHANGED <<gridSize, cellSize, configured, maxIter, path, smoothed, anchor>>
    /\ UNCHANGED editorVars

\* The loop ends with the budget used up: goalIdx == -1, "No path found."
LoopEnd ==
    /\ pc = "plan"
    /\ ~(i < maxIter)
    /\ pc' = "done"
    /\ UNCHANGED <<gridSize, cellSize, configured>>
    /\ UNCHANGED editorVars
    /\ UNCHANGED planVars

(***************************************************************************)
(* smoothPath.                                                             *)
(***************************************************************************)
\* for (int cur = goalIdx; cur != -1; cur = tree[cur].parent) path.push_back(...)
\* followed by std::reverse.  The walk of the C++ does not end on a cycle of
\* parents; here it is cut after fuel steps.
RECURSIVE Walk(_, _, _)
Walk(t, cur, fuel) ==
    IF cur = -1 \/ fuel = 0 THEN <<>>
    ELSE Append(Walk(t, NodeAt(t, cur).parent, fuel - 1), NodeAt(t, cur).point)

ExtractPath(t, idx) == Walk(t, idx, Len(t) + 1)

\* if (goalIdx != -1) smoothPath(tree, goalIdx): the walk, the reverse and
\* smoothed = { path.front() }
SmoothBegin ==
    /\ pc = "found"
    /\ goalIdx # -1
    /\ path' = ExtractPath(tree, goalIdx)
    /\ smoothed' = << ExtractPath(tree, goalIdx)[1] >>
    /\ anchor' = 0
    /\ pc' = "smooth"
    /\ UNCHANGED <<gridSize, cellSize, configured, maxIter, i, tree, goalIdx>>
    /\ UNCHANGED editorVars

\* Mutant of Farthest: the scan starts one short of the last point.
RECURSIVE Farthest_SkipLast(_, _, _)
Farthest_SkipLast(p, a, j) ==
    IF j - 1 > a /\ ~collisionFree(p[a + 1], p[j])
    THEN Farthest_SkipLast(p, a, j - 1)
    ELSE j - 1

\* Mutant of Farthest: the scan looks no further than two points ahead.
RECURSIVE Farthest_Near(_, _, _)
Farthest_Near(p, a, j) ==
    IF j > a + 2 THEN Farthest_Near(p, a, j - 1)
    ELSE IF j > a /\ ~collisionFree(p[a + 1], p[j + 1]) THEN Farthest_Near(p, a, j - 1)
    ELSE j

\* Mutant of Farthest: the last point is taken without the visibility check.
Farthest_Unchecked(p, a, j) == j

\* for (j = path.size() - 1; j > i; --j) if (collisionFree(path[i], path[j])) break;
RECURSIVE Farthest(_, _, _)
Farthest(p, a, j) ==
    IF j > a /\ ~collisionFree(p[a + 1], p[j + 1]) THEN Farthest(p, a, j - 1) ELSE j

\* One pass of the outer loop: smoothed.push_back(path[j]); i = j.  A pass that
\* finds no j > i repeats for ever in the C++; the model stops it once smoothed
\* is longer than path.
SmoothStep ==
    /\ pc = "smooth"
    /\ anchor < Len(path) - 1
    /\ Len(smoothed) <= Len(path)
    /\ LET j == Farthest(path, anchor, Len(path) - 1)
       IN  /\ smoothed' = Append(smoothed, path[j + 1])
           /\ anchor' = j
    /\ UNCHANGED <<gridSize, cellSize, configured, pc, maxIter, i, tree, goalIdx, path>>
    /\ UNCHANGED editorVars

\* return smoothed
SmoothEnd ==
    /\ pc = "smooth"
    /\ ~(anchor < Len(path) - 1)
    /\ pc' = "done"
    /\ UNCHANGED <<gridSize, cellSize, configured>>
    /\ UNCHANGED editorVars
    /\ UNCHANGED planVars

\* The outer loop of smoothPath run to its end on a waypoint sequence p from
\* the anchor a with the waypoints acc kept so far (cut after fuel passes).
RECURSIVE SmoothFrom(_, _, _, _)
SmoothFrom(p, a, acc, fuel) ==
    IF ~(a < Len(p) - 1) \/ fuel = 0 THEN acc
    ELSE LET j == Farthest(p, a, Len(p) - 1)
         IN  SmoothFrom(p, j, Append(acc, p[j + 1]), fuel - 1)

\* smoothed = { path.front() } and the outer loop, on a sequence of waypoints
SmoothSeq(p) == SmoothFrom(p, 0, << p[1] >>, Len(p))

(***************************************************************************)
(* Initial states and specifications.                                      *)
(***************************************************************************)
\* Grid sizes entered at std::cin >> gridSize.
GridSizes == {3, 10}

\* main before the setup loop
Init ==
    /\ gridSize \in GridSizes
    /\ cellSize = canvasSize \div gridSize
    /\ start = Unset
    /\ goal = Unset
    /\ obstacles = {}
    /\ undoStack = <<>>
    /\ redoStack = <<>>
    /\ selectingStart = TRUE
    /\ configured = FALSE
    /\ pc = "setup"
    /\ maxIter = MAX_ITER
    /\ i = 0
    /\ tree = <<>>
    /\ goalIdx = -1
    /\ path = <<>>
    /\ smoothed = <<>>
    /\ anchor = 0

Range(s) == { s[k] : k \in 1..Len(s) }

\* The state main enters the RRT* loop in, after an editor session on an n x n
\* grid that right-clicked the cells s and g and left-clicked the cells of
\* toggles once each.
Configured(n, s, g, toggles, budget) ==
    /\ gridSize = n
    /\ cellSize = canvasSize \div n
    /\ start = s
    /\ goal = g
    /\ obstacles = Range(toggles)
    /\ undoStack = toggles
    /\ redoStack = <<>>
    /\ selectingStart = FALSE
    /\ configured = TRUE
    /\ pc = "plan"
    /\ maxIter = budget
    /\ i = 0
    /\ tree = RootTree(s)
    /\ goalIdx = -1
    /\ path = <<>>
    /\ smoothed = <<>>
    /\ anchor = 0

\* Samples of dis(rng) the planner specifications draw from (pixels).
SamplePts ==
    { <<65, 25>>, <<65, 45>>, <<65, 65>>, <<45, 35>>,
      <<45, 70>>, <<90, 60>>, <<115, 40>>, <<30, 60>> }

\* Samples of the runs that follow an editor session.
SamplePtsEditor == { <<65, 25>>, <<45, 70>> }

\* 10 x 10 maps: an open one with the goal far from the start, an open one
\* with the goal two cells from the start, and that one with an obstacle cell
\* between start and goal.
InitPlan ==
    \/ Configured(10, <<0, 0>>, <<0, 9>>, <<>>, MAX_ITER)
    \/ Configured(10, <<0, 0>>, <<2, 0>>, <<>>, MAX_ITER)
    \/ Configured(10, <<0, 0>>, <<2, 0>>, << <<0, 1>> >>, MAX_ITER)

Smoothing == SmoothBegin \/ SmoothStep \/ SmoothEnd

NextPlan == Iterate(SamplePts) \/ LoopEnd \/ Smoothing

Next ==
    \/ \E pt \in ClickPts : LeftClick(pt[1], pt[2])
    \/ \E pt \in ClickPts : RightClick(pt[1], pt[2])
    \/ KeyUndo
    \/ KeyRedo
    \/ KeyStart
    \/ Iterate(SamplePtsEditor)
    \/ LoopEnd
    \/ Smoothing

\* Scenario A: the empty 5 x 5 map, start at cell (0,0), goal at cell (4,4),
\* with the scaled budget and with the budget that lets the goal biased steps
\* cross the map.
InitA ==
    \/ Configured(5, <<0, 0>>, <<4, 4>>, <<>>, MAX_ITER)
    \/ Configured(5, <<0, 0>>, <<4, 4>>, <<>>, MAX_ITER_A)

\* Samples of scenario A: the start position (a zero length direction at the
\* root), the goal position and a point near the start.
SamplePtsA == { <<50, 50>>, <<450, 450>>, <<70, 60>> }

NextA == Iterate(SamplePtsA) \/ LoopEnd \/ Smoothing

SpecA == InitA /\ [][NextA]_vars

\* The cells of row r of an n x n grid, in the order they are clicked.
RowCells(r, n) == [ k \in 1..n |-> <<r, k - 1>> ]

\* Scenario B: one full row of obstacle cells between start and goal, on a
\* 5 x 5 grid (cells of 100 pixels), an 83 x 83 grid (cells of 6 pixels) and a
\* 250 x 250 grid (cells of 2 pixels).
InitB ==
    \/ Configured(5, <<0, 0>>, <<0, 2>>, RowCells(1, 5), MAX_ITER)
    \/ Configured(83, <<8, 12>>, <<8, 29>>, RowCells(16, 83), MAX_ITER)
    \/ Configured(250, <<25, 38>>, <<25, 88>>, RowCells(50, 250), MAX_ITER)

\* Samples of scenario B: points just above, inside and below the walls.
SamplePtsB ==
    { <<51, 95>>, <<51, 99>>, <<51, 177>>, <<90, 160>>, <<51, 210>>, <<20, 90>> }

NextB == Iterate(SamplePtsB) \/ LoopEnd \/ Smoothing

SpecB == InitB /\ [][NextB]_vars

\* The cells of an n x n grid row by row, in the order they are clicked.
CellSeq(n) == [ k \in 1..(n * n) |-> <<(k - 1) \div n, (k - 1) % n>> ]

\* An editor session that makes every cell an obstacle but those of free.
AllBut(n, free) == SelectSeq(CellSeq(n), LAMBDA c : c \notin free)

\* Scenario D on a 10 x 10 grid (cells of 50 pixels), every cell outside the
\* corridor an obstacle: a straight corridor along row 1 from column 1 to
\* column 4, and a corridor with a bend, along row 1 from column 1 to column 3
\* and down column 3 to row 3.
StraightCorridor == { <<1, 1>>, <<1, 2>>, <<1, 3>>, <<1, 4>> }
BentCorridor == { <<1, 1>>, <<1, 2>>, <<1, 3>>, <<2, 3>>, <<3, 3>> }

InitD ==
    \/ Configured(10, <<1, 1>>, <<4, 1>>, AllBut(10, StraightCorridor), MAX_ITER)
    \/ Configured(10, <<1, 1>>, <<3, 3>>, AllBut(10, BentCorridor), MAX_ITER)

\* Samples of scenario D: points of the two corridors, two of them on either
\* side of the bend, and a point of a flanking cell.
SamplePtsD ==
    { <<122, 80>>, <<162, 110>>, <<170, 155>>, <<165, 60>>, <<200, 90>>, <<120, 120>> }

NextD == Iterate(SamplePtsD) \/ LoopEnd \/ Smoothing

SpecD == InitD /\ [][NextD]_vars

\* Grid sizes entered at std::cin >> gridSize, degenerate ones among them.
EnteredSizes == {-300, -1, 0, 3}

\* main before the setup loop, for any entered size: cellSize = canvasSize /
\* gridSize divides by zero for the size 0, which traps or leaves 0 or -1.
InitN ==
    /\ gridSize \in EnteredSizes
    /\ cellSize \in Quot(canvasSize, gridSize)
    /\ pc \in (IF gridSize = 0 THEN {"setup", "crashed"} ELSE {"setup"})
    /\ start = Unset
    /\ goal = Unset
    /\ obstacles = {}
    /\ undoStack = <<>>
    /\ redoStack = <<>>
    /\ selectingStart = TRUE
    /\ configured = FALSE
    /\ maxIter = MAX_ITER
    /\ i = 0
    /\ tree = <<>>
    /\ goalIdx = -1
    /\ path = <<>>
    /\ smoothed = <<>>
    /\ anchor = 0

\* A mouse event with cellSize == 0: x / cellSize traps.
DivZeroTrap ==
    /\ pc = "setup"
    /\ cellSize = 0
    /\ pc' = "crashed"
    /\ UNCHANGED <<gridSize, cellSize, configured>>
    /\ UNCHANGED editorVars
    /\ UNCHANGED planVars

\* Pixels of the mouse events after any entered size.
ClickPtsN == { <<25, 25>>, <<400, 400>> }

NextN ==
    \/ \E pt \in ClickPtsN : LeftClick(pt[1], pt[2])
    \/ \E pt \in ClickPtsN : RightClick(pt[1], pt[2])
    \/ DivZeroTrap
    \/ KeyUndo
    \/ KeyRedo
    \/ KeyStart
    \/ Iterate(SamplePtsEditor)
    \/ LoopEnd
    \/ Smoothing

SpecN == InitN /\ [][NextN]_vars

\* The whole program: the editor, then the planner.
Spec == Init /\ [][Next]_vars

\* The planner from a configured map.
SpecPlan == InitPlan /\ [][NextPlan]_vars

(***************************************************************************)
(* Properties of the tree.                                                 *)
(***************************************************************************)
NonRoot == { n \in 0..(Len(tree) - 1) : NodeAt(tree, n).parent # -1 }

ParentOf(n) == NodeAt(tree, n).parent

\* cost[parent[n]] + distance(position[n], position[parent[n]])
CostThroughParent(n) ==
    NodeAt(tree, ParentOf(n)).cost
        + dist(NodeAt(tree, n).point, NodeAt(tree, ParentOf(n)).point)

\* A node whose parent index is larger than its own got that parent by a rewire
\* (an insertion picks the parent among the older nodes).
Rewired(n) == ParentOf(n) > n

\* The parent of n was rewired after n was attached to it: n was attached when
\* the later of n and its parent was inserted, and the parent's own parent is
\* later still.
ParentRewiredSince(n) ==
    /\ ParentOf(ParentOf(n)) > n
    /\ ParentOf(ParentOf(n)) > ParentOf(n)

\* C1 as stated: every non-root node n satisfies
\* cost[n] == cost[parent[n]] + distance(position[n], position[parent[n]]),
\* after every insertion and every rewire pass.
C1_CostConsistent ==
    \A n \in NonRoot : NodeAt(tree, n).cost = CostThroughParent(n)

\* C1 amended: the equality holds for every non-root node whose parent has not
\* been rewired since the node was attached to it (so for the node just
\* inserted and for every node just rewired); a node whose parent was rewired
\* since keeps its old cost, which is then no smaller.
C1_CostConsistentUnlessParentRewired ==
    \A n \in NonRoot :
        IF ParentRewiredSince(n)
        THEN NodeAt(tree, n).cost >= CostThroughParent(n)
        ELSE NodeAt(tree, n).cost = CostThroughParent(n)

\* A rewire has happened and has left a child of the rewired node with a stale
\* cost, next to a rewired node whose cost is consistent.
C1_Witness ==
    /\ \E n \in NonRoot :
           ParentRewiredSince(n) /\ NodeAt(tree, n).cost > CostThroughParent(n)
    /\ \E n \in NonRoot : Rewired(n) /\ NodeAt(tree, n).cost = CostThroughParent(n)

\* Following parent references from node n ends at the root sentinel -1 within
\* k steps.
RECURSIVE RootWithin(_, _)
RootWithin(n, k) ==
    IF n = -1 THEN TRUE
    ELSE IF k = 0 THEN FALSE
    ELSE RootWithin(ParentOf(n), k - 1)

\* C2: following parent references from any node reaches the root in at most
\* (tree size) steps, in every state of the planner loop; a rewire never makes a
\* node the child of one of its own descendants.
C2_NoCycle ==
    \A n \in 0..(Len(tree) - 1) :
        /\ ParentOf(n) \in -1..(Len(tree) - 1)
        /\ RootWithin(n, Len(tree))

\* A tree in which a rewire has reparented an older node to a newer one.
C2_Witness ==
    /\ Len(tree) >= 4
    /\ \E n \in NonRoot : Rewired(n)

\* C3: every tree edge is collision free, collisionFree(position[parent[n]],
\* position[n]), and so is every consecutive pair of the extracted path.
C3_EdgesCollisionFree ==
    /\ \A n \in NonRoot :
           collisionFree(NodeAt(tree, ParentOf(n)).point, NodeAt(tree, n).point)
    /\ \A k \in 1..(Len(path) - 1) : collisionFree(path[k], path[k + 1])

\* A path of four or more nodes extracted on a map with an obstacle.
C3_Witness ==
    /\ obstacles # {}
    /\ pc = "done"
    /\ Len(path) >= 4

(***************************************************************************)
(* Properties of the loop and of its result.                               *)
(***************************************************************************)
PathFound == pc \in {"found", "smooth", "done"} /\ goalIdx # -1
Exhausted == pc = "done" /\ goalIdx = -1

\* The iterations the loop has run: a break leaves i as it was.
IterationsRun == IF goalIdx # -1 THEN i + 1 ELSE i

C6_Budget ==
    /\ IterationsRun <= maxIter
    /\ Len(tree) <= 1 + IterationsRun
    /\ pc = "plan" => goalIdx = -1
    /\ pc \in {"found", "smooth", "done"} => (PathFound /\ ~Exhausted) \/ (Exhausted /\ ~PathFound)
    /\ Exhausted => i = maxIter

\* C6: the planner ends in exactly one of PathFound and Exhausted after at
\* most the budget of iterations: every pass of the loop, a discarded one too,
\* either ends the loop or uses up one iteration of the budget, and the loop
\* is left for good; the tree holds at most 1 + (iterations run) nodes.
C6_TerminatesWithinBudget ==
    /\ []C6_Budget
    /\ [][pc = "plan" => (pc' = "plan" /\ i' = i + 1) \/ PathFound' \/ Exhausted']_vars
    /\ [][PathFound \/ Exhausted =>
              pc' # "plan" /\ i' = i /\ tree' = tree /\ goalIdx' = goalIdx]_vars

\* The budget is used up with fewer nodes than iterations: some were discarded.
C6_Witness ==
    /\ Exhausted
    /\ i = maxIter
    /\ Len(tree) > 2
    /\ Len(tree) < 1 + i

Captured(n) == dist(NodeAt(tree, n).point, goalPt) < 6 * cellSize

\* C7: PathFound is reported with index g iff g is the node inserted in the
\* last iteration run and it lies within 0.6 x cellSize of the goal; no other
\* non-root node lies that close, nor any while the loop runs or when it ends
\* Exhausted.
C7_PathFoundIffCaptured ==
    /\ goalIdx # -1 => pc # "plan" /\ goalIdx >= 1 /\ goalIdx = Len(tree) - 1 /\ Captured(goalIdx)
    /\ \A n \in 1..(Len(tree) - 1) : n # goalIdx => ~Captured(n)
    /\ pc \in {"found", "smooth"} => goalIdx # -1

\* PathFound with a tree of several nodes.
C7_Witness ==
    /\ PathFound
    /\ Len(tree) >= 4

(***************************************************************************)
(* Properties of smoothPath.                                               *)
(***************************************************************************)
RECURSIVE IsSubseq(_, _)
IsSubseq(s, p) ==
    IF s = <<>> THEN TRUE
    ELSE IF p = <<>> THEN FALSE
    ELSE IF Head(s) = Head(p) THEN IsSubseq(Tail(s), Tail(p))
    ELSE IsSubseq(s, Tail(p))

\* C10: the smoothed sequence is a subsequence of the raw path, starts at
\* path.front(), is no longer than the path and, when smoothPath returns, ends
\* at path.back().
C10_SmoothPreserves ==
    pc \in {"smooth", "done"} /\ goalIdx # -1 =>
        /\ smoothed # <<>>
        /\ smoothed[1] = path[1]
        /\ Len(smoothed) <= Len(path)
        /\ IsSubseq(smoothed, path)
        /\ pc = "done" => smoothed[Len(smoothed)] = path[Len(path)]

\* smoothPath has returned a path with a waypoint dropped and a waypoint kept.
C10_Witness ==
    /\ pc = "done"
    /\ goalIdx # -1
    /\ Len(smoothed) > 2
    /\ Len(smoothed) < Len(path)

(***************************************************************************)
(* Properties of the editor.                                               *)
(***************************************************************************)
\* C4 as stated: when the start cell equals the goal cell the configuration is
\* rejected and the planner loop is never entered.
C4_StartEqualsGoalRejected == pc # "setup" => start # goal

CellInGrid(c) == c[1] \in 0..(gridSize - 1) /\ c[2] \in 0..(gridSize - 1)

\* C5 as stated: when the planner loop is entered, neither the start cell nor
\* the goal cell is in the obstacle set and both are inside the grid.
C5_StartGoalFreeAtPlanning ==
    pc # "setup" =>
        /\ CellInGrid(start) /\ CellInGrid(goal)
        /\ <<start[2], start[1]>> \notin obstacles
        /\ <<goal[2], goal[1]>> \notin obstacles

(***************************************************************************)
(* Scenarios.                                                              *)
(***************************************************************************)
\* The rows of the grid every cell of which is an obstacle.
WallRows ==
    { r \in { c[1] : c \in obstacles } :
        \A col \in 0..(gridSize - 1) : <<r, col>> \in obstacles }

\* The walls with the start above and the goal below.
SeparatingWalls == { w \in WallRows : start[2] < w /\ w < goal[2] }

NoNodeBeyond(w) ==
    \A n \in 0..(Len(tree) - 1) : RowOf(NodeAt(tree, n).point, 1) < w

\* C8 as stated: with a full row of obstacle cells between start and goal, no
\* node is ever created on the goal side of the wall and the planner ends
\* Exhausted after the full budget, never PathFound.
C8_WallNeverCrossed ==
    \A w \in SeparatingWalls :
        /\ NoNodeBeyond(w)
        /\ ~PathFound
        /\ pc = "done" => Exhausted /\ i = maxIter

\* C8 amended: the same, for a wall thicker than the spacing of the ten points
\* collisionFree samples on a full step (stepCap / 10 = 5 pixels), that is for
\* cellSize > 5.
C8_ThickWallNeverCrossed ==
    10 * cellSize > stepCap =>
        \A w \in SeparatingWalls :
            /\ NoNodeBeyond(w)
            /\ ~PathFound
            /\ pc = "done" => Exhausted /\ i = maxIter

\* The budget is used up in front of a wall of 6 pixels, with a node in the
\* row next to the wall.
C8_Witness ==
    /\ cellSize = 6
    /\ SeparatingWalls # {}
    /\ Exhausted
    /\ \E w \in SeparatingWalls :
           \E n \in 1..(Len(tree) - 1) : RowOf(NodeAt(tree, n).point, 1) = w - 1

\* C9: on the empty 5 x 5 map with start (0,0) and goal (4,4) the planner
\* never ends Exhausted: it ends PathFound, and smoothPath returns exactly the
\* start position and the goal reaching node.  (With the budget MAX_ITER_A.)
C9_EmptyMapPathFound ==
    gridSize = 5 /\ obstacles = {} /\ start = <<0, 0>> /\ goal = <<4, 4>>
    /\ maxIter = MAX_ITER_A =>
        /\ ~Exhausted
        /\ pc = "done" => PathFound /\ smoothed = << startPt, NodeAt(tree, goalIdx).point >>

\* PathFound by the goal biased iterations alone, the path of twelve nodes
\* smoothed to its two ends.
C9_Witness ==
    /\ maxIter = MAX_ITER_A
    /\ pc = "done"
    /\ PathFound
    /\ i >= 50
    /\ Len(path) >= 12
    /\ Len(smoothed) = 2

(***************************************************************************)
(* Further properties of smoothPath.                                       *)
(***************************************************************************)
\* C11: every consecutive pair (w[k], w[k+1]) of the smoothed sequence
\* satisfies collisionFree(w[k], w[k+1]), in every pass of the outer loop and
\* at the return, and the last waypoint appended is the current anchor: no
\* waypoint is appended without its segment from the anchor having passed the
\* check.
C11_SmoothedCollisionFree ==
    pc \in {"smooth", "done"} /\ goalIdx # -1 =>
        /\ \A k \in 1..(Len(smoothed) - 1) : collisionFree(smoothed[k], smoothed[k + 1])
        /\ smoothed[Len(smoothed)] = path[anchor + 1]

\* smoothPath has returned, on a map with an obstacle, a path that keeps a
\* waypoint between its two ends.
C11_Witness ==
    /\ pc = "done"
    /\ goalIdx # -1
    /\ obstacles # {}
    /\ Len(smoothed) >= 3
    /\ ~collisionFree(path[1], path[Len(path)])

\* C12: smoothing is idempotent.  For the path from the root to any node of
\* the tree, smoothing the smoothed sequence again returns it unchanged, and
\* the sequence smoothPath returns is such a smoothed sequence.
C12_SmoothIdempotent ==
    /\ \A n \in 0..(Len(tree) - 1) :
           SmoothSeq(SmoothSeq(ExtractPath(tree, n))) = SmoothSeq(ExtractPath(tree, n))
    /\ pc = "done" /\ goalIdx # -1 =>
           smoothed = SmoothSeq(path) /\ SmoothSeq(smoothed) = smoothed

\* A path of four or more nodes whose smoothing drops a waypoint and keeps
\* one, on a map with an obstacle.
C12_Witness ==
    /\ obstacles # {}
    /\ \E n \in 0..(Len(tree) - 1) :
           /\ Len(ExtractPath(tree, n)) >= 4
           /\ Len(SmoothSeq(ExtractPath(tree, n))) >= 3
           /\ Len(SmoothSeq(ExtractPath(tree, n))) < Len(ExtractPath(tree, n))

(***************************************************************************)
(* Scenario D: exact crossing of a segment with a cell.                    *)
(***************************************************************************)
Abs(x) == IF x < 0 THEN -x ELSE x
Max(a, b) == IF a > b THEN a ELSE b

\* The parameters t = T / S of the points a0 + t * d that lie strictly between
\* lo and hi, as the open interval <<low, high>> of T (S is a multiple of d).
AxisSpan(a0, d, lo, hi, S) ==
    IF d = 0 THEN (IF lo < a0 /\ a0 < hi THEN <<-1, S + 1>> ELSE <<1, 0>>)
    ELSE IF d > 0 THEN << (lo - a0) * (S \div d), (hi - a0) * (S \div d) >>
    ELSE << (a0 - hi) * (S \div (-d)), (a0 - lo) * (S \div (-d)) >>

SpanScale(a, b) == Max(1, Abs(b[1] - a[1])) * Max(1, Abs(b[2] - a[2]))

\* The part of the segment from a to b inside the open square of the cell
\* <<row, col>>: the open interval <<low, high>> of T, 0 <= T <= SpanScale.
CellSpan(a, b, cell) ==
    LET S == SpanScale(a, b)
        X == AxisSpan(a[1], b[1] - a[1], cell[2] * cellSize, (cell[2] + 1) * cellSize, S)
        Y == AxisSpan(a[2], b[2] - a[2], cell[1] * cellSize, (cell[1] + 1) * cellSize, S)
    IN  << Max(0, Max(X[1], Y[1])), Min(S, Min(X[2], Y[2])) >>

\* The segment from a to b passes through the inside of the cell.
CrossesCell(a, b, cell) == CellSpan(a, b, cell)[1] < CellSpan(a, b, cell)[2]

\* The segment is inside the cell for at most a tenth of its length.
ClipsCell(a, b, cell) ==
    10 * (CellSpan(a, b, cell)[2] - CellSpan(a, b, cell)[1]) <= SpanScale(a, b)

\* The tree edges, parent first.
TreeEdges ==
    { << NodeAt(tree, ParentOf(n)).point, NodeAt(tree, n).point >> : n \in NonRoot }

FreeCells ==
    { c \in (0..(gridSize - 1)) \X (0..(gridSize - 1)) : c \notin obstacles }

\* The free cells are those of one row or of one column.
CorridorIsStraight ==
    \/ \E r \in 0..(gridSize - 1) : \A c \in FreeCells : c[1] = r
    \/ \E k \in 0..(gridSize - 1) : \A c \in FreeCells : c[2] = k

NodesInCorridor ==
    /\ \A n \in 0..(Len(tree) - 1) :
           ~isObstacle(NodeAt(tree, n).point)
    /\ \A k \in 1..Len(path) : ~isObstacle(path[k])

\* C13 as stated: in the one cell wide corridor no tree edge passes through any
\* part of an obstacle cell, and any path found lies inside the corridor.
C13_NoEdgeCrossesObstacle ==
    /\ \A e \in TreeEdges : \A cell \in obstacles : ~CrossesCell(e[1], e[2], cell)
    /\ NodesInCorridor

\* C13 amended: every node and every waypoint of a path found lies in a
\* corridor cell and the ten points collisionFree samples on each tree edge lie
\* in corridor cells; an edge is inside an obstacle cell for at most a tenth of
\* its length (between two sampled points, at a bend of the corridor) and not
\* at all when the corridor is straight.
C13_EdgesClipAtMostOneSample ==
    /\ NodesInCorridor
    /\ \A e \in TreeEdges :
           /\ collisionFree(e[1], e[2])
           /\ \A cell \in obstacles : ClipsCell(e[1], e[2], cell)
           /\ CorridorIsStraight => \A cell \in obstacles : ~CrossesCell(e[1], e[2], cell)

\* A path found through the bend of the corridor, one edge of which cuts the
\* corner of a flanking cell between two sampled points.
C13_Witness ==
    /\ pc = "done"
    /\ goalIdx # -1
    /\ ~CorridorIsStraight
    /\ \E k \in 1..(Len(path) - 1) :
           /\ collisionFree(path[k], path[k + 1])
           /\ \E cell \in obstacles : CrossesCell(path[k], path[k + 1], cell)

(***************************************************************************)
(* Degenerate grid sizes.                                                  *)
(***************************************************************************)
\* C14 as stated: for an entered grid size N < 1 the program never reaches the
\* RRT* loop and no cell computed with it is ever stored (as the start, as the
\* goal or as an obstacle).
C14_DegenerateGridRejected ==
    gridSize < 1 =>
        /\ pc \notin {"plan", "found", "smooth", "done"}
        /\ start = Unset /\ goal = Unset
        /\ obstacles = {}

(***************************************************************************)
(* Properties of one iteration: choose parent, insertion, rewire.          *)
(***************************************************************************)
\* The node pushed by the iteration, tree[newIdx] after it.
InsertedNode == NodeAt(tree', Len(tree))

Inserting == pc = "plan" /\ Len(tree') = Len(tree) + 1

\* The nearest node and every node within the radius (of the tree size before
\* the insertion) of newPt whose segment to newPt is collision free.
ParentCandidates(nearest, newPt) ==
    {nearest} \cup { j \in 0..(Len(tree) - 1) :
                        ParentCandidate(NodeAt(tree, j).point, newPt, Radius(Len(tree))) }

CostVia(j, newPt) == NodeAt(tree, j).cost + dist(NodeAt(tree, j).point, newPt)

\* C15: whenever a candidate is inserted, its parent p and its cost satisfy
\* cost[new] == cost[p] + distance(p, new) == the minimum of cost[j] +
\* distance(j, new) over the nearest node (to the sample the candidate was
\* steered to) and the nodes within the radius with a collision free segment,
\* costs and radius being those before the insertion.
C15_ChooseParentMinimal ==
    [][Inserting =>
         \E s \in SamplePts :
             LET randPt == SamplePoint(i, s)
                 nearest == Nearest(randPt)
                 from == NodeAt(tree, nearest).point
                 newPt == InsertedNode.point
                 p == InsertedNode.parent
             IN  /\ dist(randPt, from) # 0
                 /\ newPt = Steer(from, randPt, dist(randPt, from))
                 /\ p \in ParentCandidates(nearest, newPt)
                 /\ InsertedNode.cost = CostVia(p, newPt)
                 /\ NodeAt(tree', p).cost = NodeAt(tree, p).cost
                 /\ \A j \in ParentCandidates(nearest, newPt) :
                        InsertedNode.cost <= CostVia(j, newPt)]_vars

\* A node whose parent, chosen at its insertion, is not the node nearest to it:
\* an older node is strictly nearer, the parent gave the lower cost.
C15_Witness ==
    \E n \in NonRoot :
        /\ ParentOf(n) < n
        /\ \E q \in 0..(n - 1) :
               /\ dist(NodeAt(tree, q).point, NodeAt(tree, n).point)
                      < dist(NodeAt(tree, ParentOf(n)).point, NodeAt(tree, n).point)
               /\ collisionFree(NodeAt(tree, q).point, NodeAt(tree, n).point)

RootNode == [point |-> startPt, parent |-> -1, cost |-> 0]

C16_TreeShape ==
    pc # "setup" =>
        /\ Len(tree) >= 1
        /\ NodeAt(tree, 0) = RootNode
        /\ \A n \in 1..(Len(tree) - 1) :
               /\ ParentOf(n) \in 0..(Len(tree) - 1)
               /\ ParentOf(n) # n

\* C16: across every iteration no node is removed and no node's position
\* changes; node 0 always holds the start position with parent -1 and cost 0,
\* it is the only node with the root sentinel, and every other node's parent
\* is an index in [0, tree size) different from its own index.
C16_AppendOnlyFixedRoot ==
    /\ []C16_TreeShape
    /\ [][pc # "setup" =>
              /\ Len(tree') >= Len(tree)
              /\ Len(tree') <= Len(tree) + 1
              /\ \A k \in 1..Len(tree) : tree'[k].point = tree[k].point]_vars

\* A tree with a rewired node and a node inserted with the root within the
\* radius of its rewire pass.
C16_Witness ==
    /\ Len(tree) >= 4
    /\ \E n \in NonRoot : Rewired(n)
    /\ \E m \in 1..(Len(tree) - 1) :
           /\ dist(NodeAt(tree, 0).point, NodeAt(tree, m).point) < Radius(m)
           /\ collisionFree(NodeAt(tree, m).point, NodeAt(tree, 0).point)

\* C17: in every step each node's stored cost does not increase; the parent
\* or the cost of a node changes only in a step that inserts a node, the parent
\* becomes that node, and the new cost, newNode.cost + distance(newNode, node),
\* is strictly less than the stored one.
C17_RewireOnlyLowers ==
    [][pc # "setup" =>
         \A n \in 0..(Len(tree) - 1) :
             /\ NodeAt(tree', n).cost <= NodeAt(tree, n).cost
             /\ NodeAt(tree', n) # NodeAt(tree, n) =>
                    /\ Len(tree') = Len(tree) + 1
                    /\ NodeAt(tree', n).parent = Len(tree)
                    /\ NodeAt(tree', n).cost < NodeAt(tree, n).cost
                    /\ NodeAt(tree', n).cost =
                           InsertedNode.cost + dist(InsertedNode.point, NodeAt(tree, n).point)]_vars

\* A rewire pass has reparented one node in reach of the inserted node and has
\* left another one in reach, whose cost was no higher, as it was.
C17_Witness ==
    \E n \in NonRoot :
        /\ Rewired(n)
        /\ \E m \in 1..(ParentOf(n) - 1) :
               /\ m # n
               /\ ParentOf(m) < ParentOf(n)
               /\ RewireCandidate(NodeAt(tree, m).point, NodeAt(tree, ParentOf(n)).point,
                                   Radius(ParentOf(n)))

(***************************************************************************)
(* Termination of smoothPath.                                              *)
(***************************************************************************)
C18_SmoothProgress ==
    /\ pc = "smooth" =>
           /\ anchor \in 0..(Len(path) - 1)
           /\ Len(smoothed) - 1 <= anchor
           /\ anchor < Len(path) - 1 =>
                  Farthest(path, anchor, Len(path) - 1) > anchor
    /\ pc = "done" /\ goalIdx # -1 =>
           /\ anchor = Len(path) - 1
           /\ Len(smoothed) - 1 <= Len(path) - 1

\* C18: each pass of the outer loop of smoothPath finds an index j strictly
\* greater than the anchor (the backward scan never falls through to j == i),
\* the anchor strictly advances, and the loop ends with the anchor at the last
\* index after at most len(path) - 1 appended waypoints.
C18_SmoothTerminates ==
    /\ []C18_SmoothProgress
    /\ [][pc = "smooth" /\ pc' = "smooth" =>
              /\ anchor' > anchor
              /\ Len(smoothed') = Len(smoothed) + 1]_vars
    /\ [][pc = "smooth" /\ pc' # "smooth" =>
              pc' = "done" /\ anchor = Len(path) - 1]_vars

\* smoothPath has returned after two or more passes, the first of which
\* scanned back past a point that was not visible from the start.
C18_Witness ==
    /\ pc = "done"
    /\ goalIdx # -1
    /\ Len(smoothed) >= 3
    /\ Len(path) >= 4
    /\ obstacles # {}

(***************************************************************************)
(* Stored costs along the parent chains.                                   *)
(***************************************************************************)
\* The ancestors of node n, found in at most k steps.
RECURSIVE Ancestors(_, _)
Ancestors(n, k) ==
    IF n = -1 \/ k = 0 \/ ParentOf(n) = -1 THEN {}
    ELSE {ParentOf(n)} \cup Ancestors(ParentOf(n), k - 1)

\* C19: every non-root node n satisfies
\* cost[n] >= cost[parent[n]] + distance(position[n], position[parent[n]]),
\* and the stored cost does not decrease along any parent chain from the root
\* outward: no node's cost is below that of any of its ancestors.
C19_CostNeverUnderestimates ==
    \A n \in NonRoot :
        /\ NodeAt(tree, n).cost >= CostThroughParent(n)
        /\ \A a \in Ancestors(n, Len(tree)) : NodeAt(tree, n).cost >= NodeAt(tree, a).cost

\* A node three edges or more from the root whose cost is stale (too high)
\* after a rewire of its parent.
C19_Witness ==
    \E n \in NonRoot :
        /\ Cardinality(Ancestors(n, Len(tree))) >= 3
        /\ NodeAt(tree, n).cost > CostThroughParent(n)

(***************************************************************************)
(* The editor: undo and redo.                                              *)
(***************************************************************************)
\* The cells that occur an odd number of times in the sequence s.
OddCells(s) ==
    { c \in Range(s) : Cardinality({ k \in 1..Len(s) : s[k] = c }) % 2 = 1 }

\* The set S with the membership of the cell c changed.
Flipped(S, c) == (S \ {c}) \cup ({c} \ S)

Last(s) == s[Len(s)]
Front(s) == SubSeq(s, 1, Len(s) - 1)

\* A step that takes an entry off the undo stack: key 'u'.
UndoStep == pc = "setup" /\ Len(undoStack') = Len(undoStack) - 1

\* A step that puts an entry on the undo stack: a left-click toggle or key 'r'.
PushStep == pc = "setup" /\ Len(undoStack') = Len(undoStack) + 1

\* C20: an undo reverts exactly the most recent toggle not yet undone, and a
\* redo right after it would restore the obstacle set and the undo stack to
\* what they were before the undo; a redo does restore them so; a new
\* left-click toggle empties the redo stack; and in every reachable state the
\* obstacle set is the set of the cells that occur an odd number of times in
\* the undo stack.
C20_UndoRedoRoundTrip ==
    /\ [](obstacles = OddCells(undoStack))
    /\ [][UndoStep =>
              /\ undoStack' = Front(undoStack)
              /\ obstacles' = Flipped(obstacles, Last(undoStack))
              /\ redoStack' = Append(redoStack, Last(undoStack))
              /\ Flipped(obstacles', Last(redoStack')) = obstacles
              /\ Append(undoStack', Last(redoStack')) = undoStack
              /\ Front(redoStack') = redoStack]_vars
    /\ [][PushStep =>
              /\ Front(undoStack') = undoStack
              /\ obstacles' = Flipped(obstacles, Last(undoStack'))
              /\ \/ redoStack' = <<>>
                 \/ /\ redoStack # <<>>
                    /\ Last(undoStack') = Last(redoStack)
                    /\ redoStack' = Front(redoStack)]_vars
    /\ [][pc = "setup" /\ Len(undoStack') = Len(undoStack) =>
              obstacles' = obstacles /\ redoStack' = redoStack /\ undoStack' = undoStack]_vars

\* After two toggles and an undo: one toggle is left on the undo stack, the
\* undone one is on the redo stack.
C20_Witness ==
    /\ pc = "setup"
    /\ Len(undoStack) = 1
    /\ Len(redoStack) = 1
    /\ obstacles = { Last(undoStack) }
    /\ Last(redoStack) # Last(undoStack)

====
